---- MODULE Spec2Model ----
(***************************************************************************)
(* A model of watcher.py: one run of main() after another, each run        *)
(* loading the undecided queue, listing the registry, classifying the      *)
(* candidate models, saving the queue and sending the message.             *)
(*                                                                         *)
(* Time is counted in ticks.  A datetime has sub-second precision, the     *)
(* text format "%Y-%m-%dT%H:%M:%S" has not: a formatted time is a whole    *)
(* number of seconds.  Python dicts keep insertion order, so a dict is a   *)
(* sequence of [k, v] records with distinct keys.                          *)
(***************************************************************************)
EXTENDS Integers, Sequences, FiniteSets, TLC

\* ------------------------------------------------------------------ bounds
\* Resolution of a datetime below one second.
TicksPerSecond == 2
\* The clock readings explored: whole hours 0..MaxHours, plus 0..MaxSubTicks ticks.
MaxHours == 2
MaxSubTicks == 1
\* The clock readings a run can take between its start and its save.
MaxRunTicks == 1
\* Longest registry listing when find_latest_models is checked on its own.
MaxListing == 4
\* Longest id or filename when the message text is checked on its own.
MaxText == 2

\* ------------------------------------------------------- units (timedelta)
SecondsPerMinute == 60
SecondsPerHour == 60 * SecondsPerMinute
SecondsPerDay == 24 * SecondsPerHour
TicksPerHour == SecondsPerHour * TicksPerSecond

\* timedelta(days=, hours=, minutes=) in ticks
timedelta(days, hours, minutes) ==
    (days * SecondsPerDay + hours * SecondsPerHour + minutes * SecondsPerMinute) * TicksPerSecond

\* datetime.strftime(v, "%Y-%m-%dT%H:%M:%S"): the sub-second part is dropped.
strftime(t) == t \div TicksPerSecond

\* datetime.strptime(s, "%Y-%m-%dT%H:%M:%S").replace(tzinfo=utc)
strptime(s) == s * TicksPerSecond

\* ------------------------------------------------------------------ inputs
ModelIds == {"m1", "m2"}
\* None; a value that may be None is << >> or <<value>>.
None == << >>
Some(x) == <<x>>
Value(o) == o[1]

\* What datetime.now(timezone.utc) can return.
Instants == {h * TicksPerHour + s : h \in 0..MaxHours, s \in 0..MaxSubTicks}

\* The command line, lines 191-194: numbers "to look back" and hours "of
\* grace time", none of them negative.
DaysChoices == {0}
HoursChoices == {0, 1}
MinutesChoices == {0}
GraceChoices == {0, 1}
ArgSpace == [days : DaysChoices, hours : HoursChoices, minutes : MinutesChoices, grace : GraceChoices]
NoArgs == [days |-> 0, hours |-> 0, minutes |-> 0, grace |-> 0]

\* ------------------------------------------------------------ dict helpers
Range(s) == {s[i] : i \in DOMAIN s}
KeySet(d) == {d[i].k : i \in DOMAIN d}
Keys(d) == [i \in DOMAIN d |-> d[i].k]
Get(d, key) == d[CHOOSE i \in DOMAIN d : d[i].k = key].v

\* a | b : the keys of a in a's order, then the new keys of b; b's values win.
DictUnion(a, b) ==
    [i \in DOMAIN a |-> IF a[i].k \in KeySet(b) THEN [k |-> a[i].k, v |-> Get(b, a[i].k)] ELSE a[i]]
        \o SelectSeq(b, LAMBDA e : e.k \notin KeySet(a))

\* {k: value for k in ids} : a repeated key keeps its first position.
RECURSIVE DictFromKeys(_, _)
DictFromKeys(ids, value) ==
    IF ids = << >> THEN << >>
    ELSE LET front == DictFromKeys(SubSeq(ids, 1, Len(ids) - 1), value)
             last == ids[Len(ids)]
         IN IF last \in KeySet(front) THEN front ELSE Append(front, [k |-> last, v |-> value])

VARIABLES
    now,                    \* the last reading of the clock
    fileState,              \* undecided_models.json: "absent", "ok" or "corrupt"
    fileMap,                \* its content when "ok": id -> formatted time
    pc,                     \* where main() is
    args,                   \* the parsed command line
    time_threshold,
    grace_time_threshold,
    undecided_models,       \* main's dict of loaded records: id -> datetime
    load_ok,                \* whether load_undecided_models read the file
    listing,                \* what api.list_models yields in this run
    consumed,               \* how many items find_latest_models pulled from it
    model_ids,              \* find_latest_models' result
    idx,                    \* filter_base_models: candidates done so far
    base_models,
    new_undecided_models,
    evaluated,              \* per candidate done: whether the detail page came, is_base,
                            \* the tree page, the tree result, whether line 118 logged an error
    message,                \* prepare_message's text, line by line
    saved,                  \* "no", "ok", "failed"
    sent                    \* number of calls of the notifier in this run

vars == <<now, fileState, fileMap, pc, args, time_threshold, grace_time_threshold,
          undecided_models, load_ok, listing, consumed, model_ids, idx, base_models,
          new_undecided_models, evaluated, message, saved, sent>>

Init ==
    /\ now = 0
    /\ fileState = "absent"
    /\ fileMap = << >>
    /\ pc = "idle"
    /\ args = NoArgs
    /\ time_threshold = 0
    /\ grace_time_threshold = 0
    /\ undecided_models = << >>
    /\ load_ok = FALSE
    /\ listing = << >>
    /\ consumed = 0
    /\ model_ids = << >>
    /\ idx = 0
    /\ base_models = << >>
    /\ new_undecided_models = << >>
    /\ evaluated = << >>
    /\ message = << >>
    /\ saved = "no"
    /\ sent = 0

\* A variant of main_start: the assertion of line 197 is dropped.
main_start_unchecked ==
    /\ pc \in {"idle", "done", "raised"}
    /\ \E a \in ArgSpace, t \in Instants :
        /\ t >= now
        /\ now' = t
        /\ args' = a
        /\ pc' = "load"
        /\ time_threshold' = t - timedelta(a.days, a.hours, a.minutes)
        /\ grace_time_threshold' = (t - timedelta(a.days, a.hours, a.minutes)) - timedelta(0, a.grace, 0)
    /\ undecided_models' = << >>
    /\ load_ok' = FALSE
    /\ listing' = << >>
    /\ consumed' = 0
    /\ model_ids' = << >>
    /\ idx' = 0
    /\ base_models' = << >>
    /\ new_undecided_models' = << >>
    /\ evaluated' = << >>
    /\ message' = << >>
    /\ saved' = "no"
    /\ sent' = 0
    /\ UNCHANGED <<fileState, fileMap>>

\* main(), lines 189-201: parse the arguments, check them, compute the thresholds.
main_start ==
    /\ pc \in {"idle", "done", "raised"}
    /\ \E a \in ArgSpace, t \in Instants :
        /\ t >= now
        /\ now' = t
        /\ args' = a
        /\ IF a.days = 0 /\ a.hours = 0 /\ a.minutes = 0
           THEN /\ pc' = "raised"
                /\ time_threshold' = 0
                /\ grace_time_threshold' = 0
           ELSE /\ pc' = "load"
                /\ time_threshold' = t - timedelta(a.days, a.hours, a.minutes)
                /\ grace_time_threshold' = (t - timedelta(a.days, a.hours, a.minutes)) - timedelta(0, a.grace, 0)
    /\ undecided_models' = << >>
    /\ load_ok' = FALSE
    /\ listing' = << >>
    /\ consumed' = 0
    /\ model_ids' = << >>
    /\ idx' = 0
    /\ base_models' = << >>
    /\ new_undecided_models' = << >>
    /\ evaluated' = << >>
    /\ message' = << >>
    /\ saved' = "no"
    /\ sent' = 0
    /\ UNCHANGED <<fileState, fileMap>>

\* A variant of load_file: the expiry filter of line 164 is dropped.
load_file_no_expiry(content, threshold) ==
    [i \in DOMAIN content |-> [k |-> content[i].k, v |-> strptime(content[i].v)]]

\* load_undecided_models(grace_time_threshold), lines 159-170, on a file that parses.
load_file(content, threshold) ==
    SelectSeq([i \in DOMAIN content |-> [k |-> content[i].k, v |-> strptime(content[i].v)]],
              LAMBDA e : e.v >= threshold)

\* A variant of main_load: the error of a failing load is not caught.
main_load_raising ==
    /\ pc = "load"
    /\ IF fileState = "ok"
       THEN /\ undecided_models' = load_file(fileMap, grace_time_threshold)
            /\ load_ok' = TRUE
       ELSE /\ undecided_models' = << >>
            /\ load_ok' = FALSE
    /\ pc' = IF fileState = "ok" THEN "list" ELSE "raised"
    /\ UNCHANGED <<now, fileState, fileMap, args, time_threshold, grace_time_threshold,
                   listing, consumed, model_ids, idx, base_models, new_undecided_models,
                   evaluated, message, saved, sent>>

\* main(), line 203.  open(), json.load or strptime raising (the file is
\* absent, unreadable or does not parse) leaves {}.
main_load ==
    /\ pc = "load"
    /\ IF fileState = "ok"
       THEN /\ undecided_models' = load_file(fileMap, grace_time_threshold)
            /\ load_ok' = TRUE
       ELSE /\ undecided_models' = << >>
            /\ load_ok' = FALSE
    /\ pc' = "list"
    /\ UNCHANGED <<now, fileState, fileMap, args, time_threshold, grace_time_threshold,
                   listing, consumed, model_ids, idx, base_models, new_undecided_models,
                   evaluated, message, saved, sent>>

\* ------------------------------------------------------- registry listing
\* lastModified of a listed model, or None.
ListingTimes == {None} \cup {Some(h * TicksPerHour) : h \in 0..MaxHours}

\* api.list_models(sort="lastModified", direction=-1): distinct ids, the
\* timestamps that are present in descending order.
IsSortedDescending(l) ==
    \A i, j \in DOMAIN l :
        (i < j /\ l[i].lastModified # None /\ l[j].lastModified # None)
            => Value(l[i].lastModified) >= Value(l[j].lastModified)

RECURSIVE ListingsOfLength(_, _)
ListingsOfLength(ids, n) ==
    IF n = 0 THEN {<< >>}
    ELSE LET extended == {Append(l, item) :
                            l \in ListingsOfLength(ids, n - 1),
                            item \in [modelId : ids, lastModified : ListingTimes]}
         IN {l \in extended :
                /\ \A i \in 1..(n - 1) : l[i].modelId # l[n].modelId
                /\ IsSortedDescending(l)}

ListingsOver(ids, n) == UNION {ListingsOfLength(ids, m) : m \in 0..n}

Listings == ListingsOver(ModelIds, Cardinality(ModelIds))

\* A variant of find_latest_loop: the break of line 49 is a continue.
RECURSIVE find_latest_loop_no_break(_, _, _, _)
find_latest_loop_no_break(models, i, recent_models, threshold) ==
    IF i > Len(models) THEN [recent_models |-> recent_models, consumed |-> Len(models)]
    ELSE IF models[i].lastModified = None
         THEN find_latest_loop_no_break(models, i + 1, recent_models, threshold)
    ELSE IF Value(models[i].lastModified) >= threshold
         THEN find_latest_loop_no_break(models, i + 1, Append(recent_models, models[i].modelId), threshold)
    ELSE find_latest_loop_no_break(models, i + 1, recent_models, threshold)

\* find_latest_models, lines 41-51: the loop from item i on, with the ids
\* collected so far.  consumed counts the items pulled from the iterator.
RECURSIVE find_latest_loop(_, _, _, _)
find_latest_loop(models, i, recent_models, threshold) ==
    IF i > Len(models) THEN [recent_models |-> recent_models, consumed |-> Len(models)]
    ELSE IF models[i].lastModified = None
         THEN find_latest_loop(models, i + 1, recent_models, threshold)
    ELSE IF Value(models[i].lastModified) >= threshold
         THEN find_latest_loop(models, i + 1, Append(recent_models, models[i].modelId), threshold)
    ELSE [recent_models |-> recent_models, consumed |-> i]

find_latest_models(models, threshold) == find_latest_loop(models, 1, << >>, threshold)

\* prepare_message, line 141, the registry answering with a listing of
\* available.  An error of the registry client is not caught.
list_models(available) ==
    /\ pc = "list"
    /\ \/ \E l \in available :
            /\ listing' = l
            /\ model_ids' = find_latest_models(l, time_threshold).recent_models
            /\ consumed' = find_latest_models(l, time_threshold).consumed
            /\ pc' = "listed"
       \/ /\ pc' = "raised"
          /\ UNCHANGED <<listing, model_ids, consumed>>
    /\ UNCHANGED <<now, fileState, fileMap, args, time_threshold, grace_time_threshold,
                   undecided_models, load_ok, idx, base_models, new_undecided_models,
                   evaluated, message, saved, sent>>

main_list == list_models(Listings)

\* ------------------------------------------------------------ the pages
\* The detail page https://huggingface.co/{model_id}: the request and the
\* parse succeed (ok); an <h2> holds "Model tree for" (heading); a <div>
\* sibling follows it (div); the div's text holds "Base model" (marker).
DetailPages ==
    { [ok |-> FALSE, heading |-> FALSE, div |-> FALSE, marker |-> FALSE],
      [ok |-> TRUE, heading |-> FALSE, div |-> FALSE, marker |-> FALSE],
      [ok |-> TRUE, heading |-> TRUE, div |-> FALSE, marker |-> FALSE],
      [ok |-> TRUE, heading |-> TRUE, div |-> TRUE, marker |-> TRUE],
      [ok |-> TRUE, heading |-> TRUE, div |-> TRUE, marker |-> FALSE] }

\* A <li> of the file table: the text of its first <a>, whether its icon is
\* the directory icon, the datetime attribute of its <time> (whole
\* seconds); wellformed is FALSE when one of the three tags is missing.
OldRow == [filename |-> "f", is_directory |-> FALSE, change_time |-> 0, wellformed |-> TRUE]
NewRow == [filename |-> "g", is_directory |-> FALSE, change_time |-> SecondsPerHour, wellformed |-> TRUE]
BadRow == [filename |-> "", is_directory |-> FALSE, change_time |-> 0, wellformed |-> FALSE]
TreeTables == { << >>, <<OldRow, NewRow>>, <<NewRow, BadRow>> }

\* The page https://huggingface.co/{model_id}/tree/main: the request
\* succeeds (ok); a <ul> holding <time> tags exists (table); its <li> rows.
TreePages ==
    { [ok |-> FALSE, table |-> FALSE, rows |-> << >>],
      [ok |-> TRUE, table |-> FALSE, rows |-> << >>] }
    \cup {[ok |-> TRUE, table |-> TRUE, rows |-> r] : r \in TreeTables}

\* The tree page of an entry whose tree page was not requested.
NoPage == [ok |-> FALSE, table |-> TRUE, rows |-> << >>]

\* ---------------------------------------------------------- the classifier
ModelFile(row) ==
    [filename |-> row.filename, is_directory |-> row.is_directory,
     change_time |-> strptime(row.change_time)]

Raised == [kind |-> "raise", model |-> << >>]
Nothing == [kind |-> "none", model |-> << >>]

\* analyze_model_tree, lines 54-81.
analyze_model_tree(model_id, page, threshold) ==
    IF ~page.ok THEN Raised
    ELSE IF ~page.table THEN Nothing
    ELSE IF \E i \in DOMAIN page.rows : ~page.rows[i].wellformed THEN Raised
    ELSE LET files == [i \in DOMAIN page.rows |-> ModelFile(page.rows[i])]
             is_new == \A i \in DOMAIN files : files[i].change_time >= threshold
         IN [kind |-> "model",
             model |-> [model_id |-> model_id, files |-> files, is_new |-> is_new]]

\* filter_base_models, lines 92-110: is_base after the <h2> loop, when the
\* detail page could be fetched.
is_base_of(page) ==
    IF page.heading /\ page.div THEN Some(~page.marker) ELSE None

\* A variant of candidates: the queued ids are not appended in line 91.
candidates_listing_only == model_ids

\* filter_base_models, line 91: the sequence the loop runs over.
candidates == model_ids \o Keys(undecided_models)

\* A variant of tree_threshold: the membership test of line 112 is dropped.
tree_threshold_always_normal(model_id) == time_threshold

\* filter_base_models, line 112: the threshold handed to analyze_model_tree.
tree_threshold(model_id) ==
    IF model_id \in KeySet(undecided_models) THEN grace_time_threshold ELSE time_threshold

\* prepare_message, line 142, and filter_base_models, lines 89-90: the loop
\* is entered; the registry iterator of find_latest_models is gone.
filter_enter ==
    /\ pc = "listed"
    /\ pc' = "filter"
    /\ listing' = << >>
    /\ consumed' = 0
    /\ idx' = 0
    /\ base_models' = << >>
    /\ new_undecided_models' = << >>
    /\ UNCHANGED <<now, fileState, fileMap, args, time_threshold, grace_time_threshold,
                   undecided_models, load_ok, model_ids, evaluated, message, saved, sent>>

\* A variant of filter_base_models: the except clause of line 117 is outside
\* the loop, an error ends it.
filter_base_models_aborting ==
    /\ pc = "filter"
    /\ idx < Len(candidates)
    /\ LET model_id == candidates[idx + 1] IN
       \E detail \in DetailPages :
         LET is_base == IF detail.ok THEN is_base_of(detail) ELSE None IN
         \E tree \in IF is_base = Some(TRUE) THEN TreePages ELSE {NoPage} :
           LET result == IF is_base = Some(TRUE)
                         THEN analyze_model_tree(model_id, tree, tree_threshold(model_id))
                         ELSE Nothing
               failed == ~detail.ok \/ result.kind = "raise"
           IN /\ base_models' = IF result.kind = "model"
                                THEN Append(base_models, result.model)
                                ELSE base_models
              /\ new_undecided_models' = IF is_base = None
                                         THEN Append(new_undecided_models, model_id)
                                         ELSE new_undecided_models
              /\ evaluated' = Append(evaluated,
                    [model_id |-> model_id, detail_ok |-> detail.ok, is_base |-> is_base,
                     tree |-> tree, result |-> result, logged |-> failed])
    /\ idx' = IF evaluated'[idx + 1].logged THEN Len(candidates) ELSE idx + 1
    /\ UNCHANGED <<now, fileState, fileMap, pc, args, time_threshold, grace_time_threshold,
                   undecided_models, load_ok, listing, consumed, model_ids, message, saved, sent>>

\* One iteration of the loop of filter_base_models, lines 91-125, the
\* try / except / finally included.
filter_base_models ==
    /\ pc = "filter"
    /\ idx < Len(candidates)
    /\ LET model_id == candidates[idx + 1] IN
       \E detail \in DetailPages :
         LET is_base == IF detail.ok THEN is_base_of(detail) ELSE None IN
         \E tree \in IF is_base = Some(TRUE) THEN TreePages ELSE {NoPage} :
           LET result == IF is_base = Some(TRUE)
                         THEN analyze_model_tree(model_id, tree, tree_threshold(model_id))
                         ELSE Nothing
               failed == ~detail.ok \/ result.kind = "raise"
           IN /\ base_models' = IF result.kind = "model"
                                THEN Append(base_models, result.model)
                                ELSE base_models
              /\ new_undecided_models' = IF is_base = None
                                         THEN Append(new_undecided_models, model_id)
                                         ELSE new_undecided_models
              /\ evaluated' = Append(evaluated,
                    [model_id |-> model_id, detail_ok |-> detail.ok, is_base |-> is_base,
                     tree |-> tree, result |-> result, logged |-> failed])
    /\ idx' = idx + 1
    /\ UNCHANGED <<now, fileState, fileMap, pc, args, time_threshold, grace_time_threshold,
                   undecided_models, load_ok, listing, consumed, model_ids, message, saved, sent>>

\* ------------------------------------------------------------ the message
\* prepare_message, line 153: the text of one updated file.
modified_file_text(f) ==
    [prefix |-> IF f.is_directory THEN "Content of " ELSE "",
     filename |-> f.filename,
     suffix |-> IF f.is_directory THEN "/" ELSE ""]

\* prepare_message, line 153: the files listed for a modified model.
modified_files(model, threshold) ==
    LET recent == SelectSeq(model.files, LAMBDA f : f.change_time >= threshold)
    IN [i \in DOMAIN recent |-> modified_file_text(recent[i])]

Line(kind, model_id, files) == [kind |-> kind, model_id |-> model_id, files |-> files]

\* prepare_message, lines 143-156: the text as a sequence of lines; "" is << >>.
format_message(models, threshold) ==
    LET new_models == SelectSeq(models, LAMBDA m : m.is_new)
        modified_models == SelectSeq(models, LAMBDA m : ~m.is_new)
        new_part ==
            IF new_models = << >> THEN << >>
            ELSE <<Line("new_header", "", << >>)>>
                 \o [i \in DOMAIN new_models |-> Line("new_item", new_models[i].model_id, << >>)]
        modified_part ==
            IF modified_models = << >> THEN << >>
            ELSE <<Line("modified_header", "", << >>)>>
                 \o [i \in DOMAIN modified_models |->
                        Line("modified_item", modified_models[i].model_id,
                             modified_files(modified_models[i], threshold))]
    IN new_part \o modified_part

\* A variant of prepare_message: main goes to the send of line 208 before
\* the save of line 206.
prepare_message_send_first ==
    /\ pc = "filter"
    /\ idx = Len(candidates)
    /\ message' = format_message(base_models, time_threshold)
    /\ pc' = "send"
    /\ UNCHANGED <<now, fileState, fileMap, args, time_threshold, grace_time_threshold,
                   undecided_models, load_ok, listing, consumed, model_ids, idx, base_models,
                   new_undecided_models, evaluated, saved, sent>>

\* prepare_message, lines 143-156, once filter_base_models has returned.
prepare_message ==
    /\ pc = "filter"
    /\ idx = Len(candidates)
    /\ message' = format_message(base_models, time_threshold)
    /\ pc' = "save"
    /\ UNCHANGED <<now, fileState, fileMap, args, time_threshold, grace_time_threshold,
                   undecided_models, load_ok, listing, consumed, model_ids, idx, base_models,
                   new_undecided_models, evaluated, saved, sent>>

\* ------------------------------------------------------------------- save
\* A variant of merged_undecided: the operands of | in line 174 are swapped.
merged_undecided_overwrite(existing_undecided_models, new_undecided) ==
    LET undecided == DictUnion(existing_undecided_models, new_undecided)
    IN [i \in DOMAIN undecided |-> [k |-> undecided[i].k, v |-> strftime(undecided[i].v)]]

\* save_undecided_models, lines 174-175: the mapping that is written.
merged_undecided(existing_undecided_models, new_undecided) ==
    LET undecided == DictUnion(new_undecided, existing_undecided_models)
    IN [i \in DOMAIN undecided |-> [k |-> undecided[i].k, v |-> strftime(undecided[i].v)]]

\* main(), line 206, with save_undecided_models, lines 173-181.  open(.., "w")
\* raising leaves the file as it was; an error after it leaves a truncated file.
\* prepare_message has returned: its locals are gone.
main_save ==
    /\ pc = "save"
    /\ \E t \in Instants :
        /\ t >= now
        /\ t - now <= MaxRunTicks
        /\ now' = t
        /\ \/ /\ fileState' = "ok"
              /\ fileMap' = merged_undecided(undecided_models, DictFromKeys(new_undecided_models, t))
              /\ saved' = "ok"
           \/ /\ UNCHANGED <<fileState, fileMap>>
              /\ saved' = "failed"
           \/ /\ fileState' = "corrupt"
              /\ fileMap' = << >>
              /\ saved' = "failed"
    /\ pc' = "send"
    /\ model_ids' = << >>
    /\ idx' = 0
    /\ base_models' = << >>
    /\ evaluated' = << >>
    /\ UNCHANGED <<args, time_threshold, grace_time_threshold, undecided_models, load_ok,
                   listing, consumed, new_undecided_models, message, sent>>

\* ------------------------------------------------------------------- send
\* main(), lines 208-210: the message is sent; an error of the bot is not caught.
main_send ==
    /\ pc = "send"
    /\ message # << >>
    /\ sent' = sent + 1
    /\ pc' \in {"done", "raised"}
    /\ UNCHANGED <<now, fileState, fileMap, args, time_threshold, grace_time_threshold,
                   undecided_models, load_ok, listing, consumed, model_ids, idx, base_models,
                   new_undecided_models, evaluated, message, saved>>

\* A variant of main_skip: the empty message is sent as well.
main_skip_sends ==
    /\ pc = "send"
    /\ message = << >>
    /\ pc' = "done"
    /\ sent' = sent + 1
    /\ UNCHANGED <<now, fileState, fileMap, args, time_threshold, grace_time_threshold,
                   undecided_models, load_ok, listing, consumed, model_ids, idx, base_models,
                   new_undecided_models, evaluated, message, saved>>

\* main(), lines 211-212: nothing to send.
main_skip ==
    /\ pc = "send"
    /\ message = << >>
    /\ pc' = "done"
    /\ UNCHANGED <<now, fileState, fileMap, args, time_threshold, grace_time_threshold,
                   undecided_models, load_ok, listing, consumed, model_ids, idx, base_models,
                   new_undecided_models, evaluated, message, saved, sent>>

Next == main_start \/ main_load \/ main_list \/ filter_enter \/ filter_base_models
    \/ prepare_message \/ main_save \/ main_send \/ main_skip

Spec == Init /\ [][Next]_vars

\* find_latest_models on its own: a threshold, then one call over a listing
\* of up to MaxListing models.
ListedIds == {"m1", "m2", "m3", "m4"}

InitListing ==
    /\ now = 0
    /\ fileState = "absent"
    /\ fileMap = << >>
    /\ pc = "list"
    /\ args = NoArgs
    /\ time_threshold \in Instants
    /\ grace_time_threshold = 0
    /\ undecided_models = << >>
    /\ load_ok = FALSE
    /\ listing = << >>
    /\ consumed = 0
    /\ model_ids = << >>
    /\ idx = 0
    /\ base_models = << >>
    /\ new_undecided_models = << >>
    /\ evaluated = << >>
    /\ message = << >>
    /\ saved = "no"
    /\ sent = 0

NextListing == list_models(ListingsOver(ListedIds, MaxListing))

SpecListing == InitListing /\ [][NextListing]_vars

\* ------------------------------------------------------- the message text
\* escape_markdown, line 133: the default chars; "grave" is the grave accent.
ReservedChars ==
    <<"_", "*", "[", "]", "(", ")", "~", "grave", ">", "#", "+", "-", "=", "|", "{", "}", ".", "!">>

\* str.replace(char, "\\" + char), line 136, on a text given character by character.
RECURSIVE replace(_, _)
replace(text, char) ==
    IF text = << >> THEN << >>
    ELSE (IF text[1] = char THEN <<"\\", char>> ELSE <<text[1]>>) \o replace(Tail(text), char)

\* escape_markdown, lines 131-137: one replace after the other.
RECURSIVE escape_markdown(_, _)
escape_markdown(text, chars) ==
    IF chars = << >> THEN text
    ELSE escape_markdown(replace(text, chars[1]), Tail(chars))

\* prepare_message, line 153: the prefix and the suffix of a directory.
ContentOf == <<"C", "o", "n", "t", "e", "n", "t", " ", "o", "f", " ">>
file_text(f) ==
    (IF f.prefix = "" THEN << >> ELSE ContentOf) \o f.filename
        \o (IF f.suffix = "" THEN << >> ELSE <<"/">>)

\* prepare_message, lines 149 and 154-155: what is interpolated into the
\* line of a model: the link label, the end of the link URL, the updated
\* files.  A header line (lines 147, 151) interpolates nothing.
line_text(line) ==
    IF line.kind \in {"new_header", "modified_header"}
    THEN [kind |-> line.kind, label |-> << >>, url |-> << >>, files |-> << >>]
    ELSE [kind |-> line.kind,
          label |-> escape_markdown(line.model_id, ReservedChars),
          url |-> escape_markdown(line.model_id, <<"(">>),
          files |-> [i \in DOMAIN line.files |->
                        escape_markdown(file_text(line.files[i]), ReservedChars)]]

\* prepare_message on its own: ids and filenames are texts of up to MaxText
\* characters, reserved ones among them; the classifier has returned one
\* model and the message is written out.
Alphabet == {"a", "(", "-"}
Texts == UNION {[1..n -> Alphabet] : n \in 1..MaxText}
TextFiles ==
    {<< >>} \cup {<<[filename |-> name, is_directory |-> d, change_time |-> strptime(t)]>> :
                    name \in Texts, d \in BOOLEAN, t \in {0, SecondsPerHour}}
TextModels ==
    {[model_id |-> id, files |-> files,
      is_new |-> \A i \in DOMAIN files : files[i].change_time >= TicksPerHour] :
        id \in Texts, files \in TextFiles}

InitMessage ==
    /\ now = 2 * TicksPerHour
    /\ fileState = "absent"
    /\ fileMap = << >>
    /\ pc = "filter"
    /\ args = [days |-> 0, hours |-> 1, minutes |-> 0, grace |-> 0]
    /\ time_threshold = TicksPerHour
    /\ grace_time_threshold = TicksPerHour
    /\ undecided_models = << >>
    /\ load_ok = FALSE
    /\ listing = << >>
    /\ consumed = 0
    /\ model_ids = << >>
    /\ idx = 0
    /\ \E model \in TextModels : base_models = <<model>>
    /\ new_undecided_models = << >>
    /\ evaluated = << >>
    /\ message = << >>
    /\ saved = "no"
    /\ sent = 0

prepare_message_text ==
    /\ pc = "filter"
    /\ LET lines == format_message(base_models, time_threshold)
       IN message' = [i \in DOMAIN lines |-> line_text(lines[i])]
    /\ pc' = "save"
    /\ UNCHANGED <<now, fileState, fileMap, args, time_threshold, grace_time_threshold,
                   undecided_models, load_ok, listing, consumed, model_ids, idx, base_models,
                   new_undecided_models, evaluated, saved, sent>>

NextMessage == prepare_message_text

SpecMessage == InitMessage /\ [][NextMessage]_vars

\* ------------------------------------------------------------------ claims
\* The settings and the start time of the current run.
Lookback == timedelta(args.days, args.hours, args.minutes)
GracePeriod == timedelta(0, args.grace, 0)
RunStart == time_threshold + Lookback
\* The file has not been written yet in the current run.
BeforeSave == pc \in {"list", "listed", "filter", "save"}

AllFilesSince(model, threshold) ==
    \A j \in DOMAIN model.files : model.files[j].change_time >= threshold

C3_LoadedTimestampKept ==
    [][(pc = "save" /\ saved' = "ok") =>
          \A k \in KeySet(undecided_models) :
              /\ k \in KeySet(fileMap')
              /\ Get(fileMap', k) = Get(fileMap, k)]_vars

\* A loaded entry was found Unknown again and the saved file holds its
\* earlier timestamp, not the time of this save.
C3_Witness ==
    /\ pc = "send"
    /\ saved = "ok"
    /\ \E k \in KeySet(undecided_models) :
          /\ k \in Range(new_undecided_models)
          /\ Get(fileMap, k) # strftime(now)

\* The ids of the models listed in a message.
MessageIds(text) ==
    {text[i].model_id : i \in {j \in DOMAIN text : text[j].kind \in {"new_item", "modified_item"}}}

\* C4: an entry loaded from the queue whose lineage resolved in the run
\* (it is not among the run's undecided ids) is not in the file the run
\* has saved.
C4_ResolvedRecordDeleted ==
    (pc = "send" /\ saved = "ok") =>
        \A k \in KeySet(undecided_models) :
            k \notin Range(new_undecided_models) => k \notin KeySet(fileMap)

\* C5: an entry one of whose lineage fetches was Unknown in the run is in
\* no section of the message and, the save having succeeded, is in the
\* saved file, with the time of the save when the run had not loaded it.
C5_UnknownQueuedNotReported ==
    pc = "send" =>
        \A k \in Range(new_undecided_models) :
            /\ k \notin MessageIds(message)
            /\ saved = "ok" =>
                  /\ k \in KeySet(fileMap)
                  /\ k \notin KeySet(undecided_models) => Get(fileMap, k) = strftime(now)

\* The position of the first listed item that carries a timestamp below
\* the threshold; past the end when there is none.
FirstBelow(l, threshold) ==
    LET below == {i \in DOMAIN l :
                    l[i].lastModified # None /\ Value(l[i].lastModified) < threshold}
    IN IF below = {} THEN Len(l) + 1
       ELSE CHOOSE i \in below : \A j \in below : i <= j

\* C6: on a listing sorted descending, find_latest_models pulls the items
\* up to the first one whose timestamp is below the threshold and none
\* after it; it returns the ids, in listing order, of the items before
\* that one that carry a timestamp, the items without one being skipped.
C6_StopsAtFirstBelow ==
    pc = "listed" =>
        LET stop == FirstBelow(listing, time_threshold)
            before == SubSeq(listing, 1, stop - 1)
            dated == SelectSeq(before, LAMBDA item : item.lastModified # None)
        IN /\ IsSortedDescending(listing)
           /\ consumed = IF stop <= Len(listing) THEN stop ELSE Len(listing)
           /\ model_ids = [i \in DOMAIN dated |-> dated[i].modelId]

\* An item without timestamp was skipped, a later item was returned, and
\* the enumeration stopped with an item left in the listing.
C6_Witness ==
    /\ pc = "listed"
    /\ consumed < Len(listing)
    /\ model_ids # << >>
    /\ \E i \in 1..consumed : listing[i].lastModified = None

\* The run is past its send-or-skip decision.
Decided == pc = "done" \/ (pc = "raised" /\ saved # "no")

\* C7: an entry whose record is in the queue file when a run starts within
\* its grace window (start - first_seen < grace_period) is loaded and
\* evaluated by that run, whether the registry lists it or not, and is in
\* the run's message when one of its evaluations found a Base lineage and
\* a file listing.
C7_QueuedEntryReevaluated ==
    (BeforeSave /\ fileState = "ok") =>
        \A r \in DOMAIN fileMap :
            (RunStart - strptime(fileMap[r].v) < GracePeriod) =>
                /\ fileMap[r].k \in KeySet(undecided_models)
                /\ pc = "save" =>
                      /\ \E j \in DOMAIN evaluated : evaluated[j].model_id = fileMap[r].k
                      /\ (\E j \in DOMAIN evaluated :
                              /\ evaluated[j].model_id = fileMap[r].k
                              /\ evaluated[j].is_base = Some(TRUE)
                              /\ evaluated[j].result.kind = "model")
                            => fileMap[r].k \in MessageIds(message)

\* A queued entry the registry did not list was evaluated within its grace
\* window and is in the message.
C7_Witness ==
    /\ pc = "save"
    /\ fileState = "ok"
    /\ \E r \in DOMAIN fileMap :
          /\ RunStart - strptime(fileMap[r].v) < GracePeriod
          /\ RunStart > strptime(fileMap[r].v)
          /\ fileMap[r].k \notin Range(model_ids)
          /\ fileMap[r].k \in MessageIds(message)

\* C8: a run calls the notifier at most once, not before its send-or-skip
\* decision, and has called it exactly when the formatted message is not
\* empty; the message formatted by a run with no listed id past the time
\* threshold and an empty queue is empty, and the message is not changed
\* between its formatting and the decision.
C8_SentIffMessage ==
    /\ [](/\ sent <= 1
          /\ ~Decided => sent = 0
          /\ Decided => (sent = 1 <=> message # << >>)
          /\ (pc = "save" /\ model_ids = << >> /\ undecided_models = << >>) => message = << >>)
    /\ [][(pc \in {"save", "send"}) => (message' = message)]_vars

\* The notifier was called with a message by a run whose queue was empty.
C8_Witness ==
    /\ Decided
    /\ sent = 1
    /\ message # << >>
    /\ undecided_models = << >>

\* The entries of the log that failed: the detail page or the tree page
\* raised.
Failed(e) == ~e.detail_ok \/ e.result.kind = "raise"

\* The models and the undecided ids the entries of a log contribute, in order.
RECURSIVE ModelsOf(_)
ModelsOf(log) ==
    IF log = << >> THEN << >>
    ELSE LET front == ModelsOf(SubSeq(log, 1, Len(log) - 1))
             last == log[Len(log)]
         IN IF last.result.kind = "model" THEN Append(front, last.result.model) ELSE front

RECURSIVE UndecidedOf(_)
UndecidedOf(log) ==
    IF log = << >> THEN << >>
    ELSE LET front == UndecidedOf(SubSeq(log, 1, Len(log) - 1))
             last == log[Len(log)]
         IN IF last.is_base = None THEN Append(front, last.model_id) ELSE front

\* C9: a failure on the detail page or the tree page of one candidate is
\* logged, leaves no model of that candidate in the result, and does not
\* end the loop: every candidate, before and after it, is evaluated in
\* turn, and the result holds exactly what each evaluation gave on its
\* own (a model scraped against the candidate's threshold, or an
\* undecided id), in candidate order; the message is formatted from all.
C9_FailureDropsOneEntry ==
    (pc \in {"filter", "save"}) =>
        /\ Len(evaluated) = idx
        /\ idx <= Len(candidates)
        /\ pc = "save" => idx = Len(candidates)
        /\ \A j \in DOMAIN evaluated :
              LET e == evaluated[j] IN
                /\ e.model_id = candidates[j]
                /\ Failed(e) <=> e.logged
                /\ Failed(e) => e.result.kind # "model"
                /\ ~e.detail_ok => e.is_base = None
                /\ e.result.kind = "model" =>
                      /\ e.is_base = Some(TRUE)
                      /\ e.result.model.model_id = e.model_id
                      /\ e.result.model.is_new
                            <=> AllFilesSince(e.result.model, tree_threshold(e.model_id))
        /\ base_models = ModelsOf(evaluated)
        /\ new_undecided_models = UndecidedOf(evaluated)
        /\ pc = "save" => message = format_message(ModelsOf(evaluated), time_threshold)

\* A candidate failed between two candidates that are both reported.
C9_Witness ==
    /\ pc = "save"
    /\ \E i, j, k \in DOMAIN evaluated :
          /\ i < j /\ j < k
          /\ evaluated[j].logged
          /\ evaluated[j].detail_ok
          /\ evaluated[i].result.kind = "model"
          /\ evaluated[k].result.kind = "model"
          /\ evaluated[i].model_id \in MessageIds(message)
          /\ evaluated[k].model_id \in MessageIds(message)
          /\ evaluated[j].model_id \notin MessageIds(message)

\* C10: a load that fails (the file is absent or does not parse) leaves
\* the run an empty queue and the run goes on to the listing; a save,
\* failed or not, changes nothing of the run (queue, result, message,
\* notifier calls) and the run goes on to the send-or-skip decision,
\* which the message alone decides.
C10_PersistenceFailureNotFatal ==
    /\ [][pc = "load" =>
            /\ pc' = "list"
            /\ fileState # "ok" => (undecided_models' = << >> /\ ~load_ok')]_vars
    /\ [][pc = "save" =>
            /\ pc' = "send"
            /\ saved' \in {"ok", "failed"}
            /\ UNCHANGED <<undecided_models, new_undecided_models, message, sent>>]_vars
    /\ [][pc = "send" =>
            /\ pc' \in {"done", "raised"}
            /\ sent' = IF message = << >> THEN sent ELSE sent + 1
            /\ (message = << >>) => pc' = "done"]_vars

\* A run whose load and save both failed has sent its message.
C10_Witness ==
    /\ pc = "done"
    /\ ~load_ok
    /\ saved = "failed"
    /\ sent = 1

\* The rows of a table that have their link, icon and timestamp.
WellFormedRows(rows) == SelectSeq(rows, LAMBDA r : r.wellformed)

\* C11 (as stated): a malformed row of the file table is skipped: an
\* entry whose tree page was scraped and has the table is returned, its
\* files being the well-formed rows of the table.
C11_MalformedRowSkipped ==
    \A j \in DOMAIN evaluated :
        LET e == evaluated[j] IN
            (e.is_base = Some(TRUE) /\ e.tree.ok /\ e.tree.table) =>
                /\ e.result.kind = "model"
                /\ e.result.model.files =
                      [i \in DOMAIN WellFormedRows(e.tree.rows) |->
                          ModelFile(WellFormedRows(e.tree.rows)[i])]

\* C12: a run started with days, hours and minutes all zero fails at once:
\* its start leaves the queue file as it was and ends the run, and the run
\* has loaded no queue, pulled no listing, evaluated no candidate, written
\* no file and called the notifier zero times.
C12_ZeroLookbackFailsFirst ==
    /\ [](Lookback = 0 =>
            /\ pc \in {"idle", "raised"}
            /\ ~load_ok /\ undecided_models = << >>
            /\ listing = << >> /\ consumed = 0 /\ model_ids = << >>
            /\ evaluated = << >> /\ idx = 0
            /\ saved = "no"
            /\ message = << >> /\ sent = 0)
    /\ [][(pc \in {"idle", "done", "raised"}
            /\ args'.days = 0 /\ args'.hours = 0 /\ args'.minutes = 0) =>
              (pc' = "raised" /\ UNCHANGED <<fileState, fileMap>>)]_vars

\* A run with a zero lookback has failed; the queue file an earlier run
\* wrote is still there.
C12_Witness ==
    /\ pc = "raised"
    /\ Lookback = 0
    /\ fileState = "ok"
    /\ fileMap # << >>

\* Every reserved character of a text follows a backslash.
Escaped(text) ==
    \A i \in DOMAIN text :
        (\E c \in DOMAIN ReservedChars : text[i] = ReservedChars[c]) =>
            (i > 1 /\ text[i - 1] = "\\")

\* C13 (as stated): in each line of a model, every reserved character that
\* comes from the id or from a filename follows a backslash, in the link
\* label, in the link URL and in the updated-files list.
C13_EveryInterpolationEscaped ==
    \A i \in DOMAIN message :
        (message[i].kind \in {"new_item", "modified_item"}) =>
            /\ Escaped(message[i].label)
            /\ Escaped(message[i].url)
            /\ \A j \in DOMAIN message[i].files : Escaped(message[i].files[j])

\* C14 (as stated): for an entry pulled from the undecided queue and
\* reported in the Modified section, the updated-files list holds every
\* file whose change time is >= the grace threshold.
C14_QueuedFilesSinceGrace ==
    (pc = "save") =>
        \A j \in DOMAIN evaluated :
            LET e == evaluated[j] IN
                (/\ e.model_id \in KeySet(undecided_models)
                 /\ e.result.kind = "model"
                 /\ ~e.result.model.is_new) =>
                    \A i \in DOMAIN message :
                        (message[i].kind = "modified_item" /\ message[i].model_id = e.model_id) =>
                            \A f \in DOMAIN e.result.model.files :
                                (e.result.model.files[f].change_time >= grace_time_threshold) =>
                                    modified_file_text(e.result.model.files[f]) \in Range(message[i].files)

\* C15 (as stated): whatever the accepted command line, the threshold
\* handed to the file scrape of a queued entry is strictly earlier than
\* the threshold handed to the file scrape of a fresh entry.
C15_GraceThresholdStrictlyEarlier ==
    (pc = "filter") =>
        \A id \in KeySet(undecided_models) : tree_threshold(id) < time_threshold

\* C16 (as stated): the file-tree scraper is not invoked for an entry
\* classified Derived or Unknown, and no such entry is in the list of
\* reported models.
C16_OnlyBaseScrapedAndReported ==
    (pc \in {"filter", "save"}) =>
        \A j \in DOMAIN evaluated :
            (evaluated[j].is_base # Some(TRUE)) =>
                /\ evaluated[j].tree = NoPage
                /\ evaluated[j].result.kind # "model"
                /\ \A i \in DOMAIN base_models :
                      base_models[i].model_id # evaluated[j].model_id

\* C17 (as stated): the save is atomic: after it, failed or not, the file
\* holds either what it held before the save or the complete new mapping.
C17_SaveIsAtomic ==
    [][(pc = "save") =>
          \/ UNCHANGED <<fileState, fileMap>>
          \/ /\ fileState' = "ok"
             /\ fileMap' = merged_undecided(undecided_models,
                                            DictFromKeys(new_undecided_models, now'))]_vars

\* C18 (as stated): within one run every id is classified once and has at
\* most one line in the New and Modified sections, also when it is both
\* listed by the registry and in the loaded queue.
C18_ReportedOnce ==
    (pc = "save") =>
        /\ \A i, j \in DOMAIN evaluated :
              (evaluated[i].model_id = evaluated[j].model_id) => i = j
        /\ \A i, j \in DOMAIN message :
              (/\ message[i].kind \in {"new_item", "modified_item"}
               /\ message[j].kind \in {"new_item", "modified_item"}
               /\ message[i].model_id = message[j].model_id) => i = j

\* C19 (as stated): every line of the Modified section has a non-empty
\* updated-files list.
C19_ModifiedHasUpdatedFiles ==
    \A i \in DOMAIN message :
        (message[i].kind = "modified_item") => message[i].files # << >>

\* C20: the notifier is not called before save_undecided_models has
\* returned, and the send leaves the file alone: when the delivery has
\* failed after a save that succeeded, the file holds the records the run
\* loaded, with their timestamps, and the newly undecided ids.
C20_SavedBeforeSend ==
    /\ []((pc = "send" \/ sent > 0) => saved # "no")
    /\ []((pc = "raised" /\ sent = 1 /\ saved = "ok") =>
            /\ fileState = "ok"
            /\ fileMap = merged_undecided(undecided_models,
                                           DictFromKeys(new_undecided_models, now))
            /\ KeySet(fileMap) = KeySet(undecided_models) \cup Range(new_undecided_models))
    /\ [][(pc = "send") => UNCHANGED <<fileState, fileMap>>]_vars

\* The delivery failed; the file holds a loaded record and a newly
\* undecided id.
C20_Witness ==
    /\ pc = "raised"
    /\ sent = 1
    /\ saved = "ok"
    /\ undecided_models # << >>
    /\ \E id \in Range(new_undecided_models) :
          /\ id \notin KeySet(undecided_models)
          /\ id \in KeySet(fileMap)
====
